---- MODULE Spec2Model ----
(***************************************************************************)
(* FileShift conversion endpoint: netlify/functions/convert.js and         *)
(* netlify/functions/convert.mts.                                          *)
(*                                                                         *)
(* Strings are sequences of code points (integers); buffers are sequences  *)
(* of bytes (integers 0..255).  The two handler variants are told apart by *)
(* a parameter v \in Variants.  What the external libraries (busboy,       *)
(* msgreader, cfb, mailparser, mammoth, pdfkit, docx) return is an input   *)
(* of the model: each call either throws or returns a value drawn from a   *)
(* small set.                                                              *)
(***************************************************************************)
EXTENDS Integers, Sequences, FiniteSets, TLC

VARIABLES
  variant,  \* which handler serves the request: "js" or "mts"
  req,      \* the request: its method and its multipart form
  pc,       \* where the handler is: start, parse, extract, convert, done
  env,      \* ext, baseName, fileBuffer and targetFormat once the form is read
  content,  \* what extract() came to
  result,   \* what convert() came to
  resp,     \* the responses returned for the request, in order
  trace,    \* the stages the handler has entered for the request
  log400,   \* the 400 responses sent so far: what was missing, and the message
  xin,      \* extraction alone: variant, extension, buffer, library outcomes
  xout,     \* extraction alone: what extract() came to
  mail,     \* canonical layout alone: variant and e-mail fields
  mtext,    \* canonical layout alone: the text buildTextEmail built
  bodies,   \* canonical layout alone: the body the PDF and DOCX renderers recover
  calls     \* invocations in flight together: each one's own request and locals

hvars == <<variant, req, pc, env, content, result, resp, trace, log400>>
xvars == <<xin, xout>>
mvars == <<mail, mtext, bodies>>
cvars == <<calls>>
vars == <<variant, req, pc, env, content, result, resp, trace, log400,
          xin, xout, mail, mtext, bodies, calls>>

\* ---------------------------------------------------------------- bounds

\* Longest upload buffer of a request in the handler specification.
MaxBufLen == 1
\* Longest source buffer in the extraction specification.
MaxSrcLen == 3
\* Longest e-mail body (in code points) in the canonical-layout specification.
MaxBodyLen == 3

\* ------------------------------------------------------- string helpers

Variants == {"js", "mts"}

\* The bytes source buffers are built from: LF, space, '1', '<', '>', 'A'
\* and 0xC8 (a UTF-8 lead byte with no continuation byte after it).
Bytes == {10, 32, 49, 60, 62, 65, 200}

RECURSIVE SeqsUpTo(_, _)
SeqsUpTo(S, n) ==
  IF n = 0 THEN {<<>>}
  ELSE LET shorter == SeqsUpTo(S, n - 1)
       IN  shorter \cup {Append(s, c) : s \in {t \in shorter : Len(t) = n - 1}, c \in S}

Repeat(c, n) == [i \in 1..n |-> c]

\* The concatenation of parts[lo..hi] (by halves, so that long texts do not
\* nest deeply).
RECURSIVE FlattenRange(_, _, _)
FlattenRange(parts, lo, hi) ==
  IF lo > hi THEN <<>>
  ELSE IF lo = hi THEN parts[lo]
  ELSE FlattenRange(parts, lo, (lo + hi) \div 2)
         \o FlattenRange(parts, (lo + hi) \div 2 + 1, hi)

Flatten(parts) == FlattenRange(parts, 1, Len(parts))

\* Array.prototype.join
Join(lines, sep) ==
  Flatten([i \in 1..Len(lines) |-> IF i = 1 THEN lines[i] ELSE sep \o lines[i]])

\* String.prototype.split on one character: "" splits into [""].
Split(s, c) ==
  LET P == {i \in 1..Len(s) : s[i] = c}
      n == Cardinality(P)
      at(k) == IF k = 0 THEN 0
               ELSE IF k = n + 1 THEN Len(s) + 1
               ELSE CHOOSE p \in P : Cardinality({q \in P : q <= p}) = k
  IN  [k \in 1..(n + 1) |-> SubSeq(s, at(k - 1) + 1, at(k) - 1)]

\* White space as String.prototype.trim and the regex class \s see it.
WsChars ==
  {9, 10, 11, 12, 13, 32, 160, 5760, 8232, 8233, 8239, 8287, 12288, 65279} \cup (8192..8202)

IsWs(c) == c \in WsChars

\* String.prototype.trim
Trim(s) ==
  IF \A i \in 1..Len(s) : IsWs(s[i]) THEN <<>>
  ELSE LET first == CHOOSE i \in 1..Len(s) : ~IsWs(s[i]) /\ \A j \in 1..(i - 1) : IsWs(s[j])
           last == CHOOSE i \in 1..Len(s) :
                     ~IsWs(s[i]) /\ \A j \in (i + 1)..Len(s) : IsWs(s[j])
       IN  SubSeq(s, first, last)

\* s with the characters of S removed.
Without(s, S) == SelectSeq(s, LAMBDA c : c \notin S)

StartsWith(s, c) == Len(s) > 0 /\ s[1] = c

\* The last such line in place of the first.
FindLastIndexStartsWith(lines, c) ==
  IF \E i \in 1..Len(lines) : StartsWith(lines[i], c)
  THEN CHOOSE i \in 1..Len(lines) :
         /\ StartsWith(lines[i], c)
         /\ \A j \in (i + 1)..Len(lines) : ~StartsWith(lines[j], c)
  ELSE 0

\* Array.prototype.findIndex(l => l.startsWith(c)), 1-based; 0 when none.
FindIndexStartsWith(lines, c) ==
  IF \E i \in 1..Len(lines) : StartsWith(lines[i], c)
  THEN CHOOSE i \in 1..Len(lines) :
         /\ StartsWith(lines[i], c)
         /\ \A j \in 1..(i - 1) : ~StartsWith(lines[j], c)
  ELSE 0

ToLower(c) == IF c >= 65 /\ c <= 90 THEN c + 32 ELSE c

LowerCase(s) == [i \in 1..Len(s) |-> ToLower(s[i])]

\* Buffer.toString("utf-8"): one-, two- and three-byte sequences; any byte
\* that does not start a well-formed sequence decodes to U+FFFD.
IsCont(b) == b >= 128 /\ b <= 191

RECURSIVE Utf8Decode(_)
Utf8Decode(b) ==
  IF Len(b) = 0 THEN <<>>
  ELSE IF b[1] < 128 THEN <<b[1]>> \o Utf8Decode(Tail(b))
  ELSE IF b[1] >= 194 /\ b[1] <= 223 /\ Len(b) >= 2 /\ IsCont(b[2])
       THEN <<(b[1] - 192) * 64 + (b[2] - 128)>> \o Utf8Decode(SubSeq(b, 3, Len(b)))
  ELSE IF /\ b[1] >= 224 /\ b[1] <= 239 /\ Len(b) >= 3 /\ IsCont(b[2]) /\ IsCont(b[3])
          /\ (b[1] - 224) * 4096 + (b[2] - 128) * 64 + (b[3] - 128) >= 2048
       THEN <<(b[1] - 224) * 4096 + (b[2] - 128) * 64 + (b[3] - 128)>>
              \o Utf8Decode(SubSeq(b, 4, Len(b)))
  ELSE <<65533>> \o Utf8Decode(Tail(b))

\* Buffer.from(s, "latin1"): one byte per character.
Latin1Bytes(c) == <<c % 256>>

\* Buffer.from(s, "utf-8") for code points below U+10000.
Utf8Bytes(c) ==
  IF c < 128 THEN <<c>>
  ELSE IF c < 2048 THEN <<192 + (c \div 64), 128 + (c % 64)>>
  ELSE <<224 + (c \div 4096), 128 + ((c \div 64) % 64), 128 + (c % 64)>>

Utf8Encode(s) == Flatten([i \in 1..Len(s) |-> Utf8Bytes(s[i])])

\* esc(): String(s || "") with & < > " replaced by their entities.
Entity(c) ==
  CASE c = 38 -> <<38, 97, 109, 112, 59>>
    [] c = 60 -> <<38, 108, 116, 59>>
    [] c = 62 -> <<38, 103, 116, 59>>
    [] c = 34 -> <<38, 113, 117, 111, 116, 59>>
    [] OTHER -> <<c>>

esc(s) == Flatten([i \in 1..Len(s) |-> Entity(s[i])])

\* ----------------------------------------------------- filename handling

\* Position of the last '.' of a name; 0 when it has none.
LastDot(name) ==
  IF \E i \in 1..Len(name) : name[i] = 46
  THEN CHOOSE i \in 1..Len(name) :
         name[i] = 46 /\ \A j \in (i + 1)..Len(name) : name[j] # 46
  ELSE 0

\* filename.split(".").pop().toLowerCase()
ExtOf(name) == LowerCase(SubSeq(name, LastDot(name) + 1, Len(name)))

\* The name with nothing taken off.
BaseNameWhole(name) == name

\* filename.replace(/\.[^.]+$/, "")
BaseNameOf(name) ==
  IF LastDot(name) > 0 /\ LastDot(name) < Len(name)
  THEN SubSeq(name, 1, LastDot(name) - 1)
  ELSE name

\* ------------------------------------------------ canonical e-mail text

\* "─" (U+2500), the glyph the divider line is made of.
DividerGlyph == 9472
\* "─".repeat(50) in convert.js, "─".repeat(60) in convert.mts.
DividerLenJs == 50
DividerLenMts == 60

\* One divider length for both variants.
DividerLenAlwaysJs(v) == DividerLenJs

DividerLen(v) == IF v = "js" THEN DividerLenJs ELSE DividerLenMts

SubjectLabel == <<83, 117, 98, 106, 101, 99, 116, 58, 32>>
FromLabel == <<70, 114, 111, 109, 58, 32>>
ToLabel == <<84, 111, 58, 32>>
CcLabel == <<67, 67, 58, 32>>
DateLabel == <<68, 97, 116, 101, 58, 32>>
AttachmentsLabel == <<65, 116, 116, 97, 99, 104, 109, 101, 110, 116, 115, 58, 32>>
CommaSpace == <<44, 32>>

\* The header lines of the canonical layout, in the order they are pushed.
HeaderLines(m) ==
  <<SubjectLabel \o m.subject, FromLabel \o m.from, ToLabel \o m.to>>
    \o (IF m.cc # <<>> THEN <<CcLabel \o m.cc>> ELSE <<>>)
    \o (IF m.date # <<>> THEN <<DateLabel \o m.date>> ELSE <<>>)
    \o (IF Len(m.attachments) > 0
        THEN <<AttachmentsLabel \o Join(m.attachments, CommaSpace)>> ELSE <<>>)

\* buildTextEmail({subject, from, to, cc, date, body, attachments})
buildTextEmail(v, m) ==
  Join(HeaderLines(m) \o <<<<>>, Repeat(DividerGlyph, DividerLen(v)), <<>>, m.body>>, <<10>>)

\* lines.slice(idx + 1).join("\n").trim(), idx the 0-based findIndex result
\* (i is that index plus one, so i = 0 keeps every line).
AfterLine(lines, i) == Trim(Join(SubSeq(lines, i + 1, Len(lines)), <<10>>))

\* getBody(text) of convert.mts; lines 330-332 of generateDOCX in convert.js
\* are the same computation.
getBody(text) ==
  LET lines == Split(text, 10)
      idx == FindIndexStartsWith(lines, DividerGlyph)
  IN  IF idx > 0 THEN AfterLine(lines, idx) ELSE text

\* convert.js generatePDF line 278: slice(findIndex(...) + 1).join("\n").trim()
\* || content.text; findIndex gives -1 when no line starts with the glyph.
PdfBodyJs(text) ==
  LET lines == Split(text, 10)
      idx == FindIndexStartsWith(lines, DividerGlyph)
      after == AfterLine(lines, idx)
  IN  IF after # <<>> THEN after ELSE text

\* The body text the PDF renderer draws for an e-mail document.
PdfBodyText(v, text) == IF v = "js" THEN PdfBodyJs(text) ELSE getBody(text)

\* The body text the DOCX renderer splits into paragraphs for an e-mail document.
DocxBodyText(v, text) == getBody(text)

\* ------------------------------------------------------------ extraction

\* The intermediate document { text, html, meta }: text, and of meta the
\* type discriminator (kind) with the e-mail fields (m).  The html view is
\* not part of this record.
NoFields ==
  [subject |-> <<>>, from |-> <<>>, to |-> <<>>, cc |-> <<>>, date |-> <<>>,
   body |-> <<>>, attachments |-> <<>>]

GenericDoc(text) == [text |-> text, kind |-> "none", m |-> NoFields]

EmailDoc(v, m) == [text |-> buildTextEmail(v, m), kind |-> "email", m |-> m]

\* What a call of extract() comes to: a document it returns, produced by
\* the structured parser ("structured"), by the catch branch ("salvage") or
\* by a branch that has no parser ("direct"); or an error it raises.
Returned(path, doc) == [ok |-> TRUE, path |-> path, doc |-> doc, err |-> ""]

Raised(err) == [ok |-> FALSE, path |-> "raised", doc |-> GenericDoc(<<>>), err |-> err]

NoSubject == <<40, 84, 97, 110, 112, 97, 32, 83, 117, 98, 106, 101, 107, 41>>
Unknown == <<40, 84, 105, 100, 97, 107, 32, 100, 105, 107, 101, 116, 97, 104, 117, 105, 41>>
CannotReadMsg ==
  <<40, 84, 105, 100, 97, 107, 32, 100, 97, 112, 97, 116, 32, 109, 101, 109, 98, 97, 99,
    97, 32, 107, 111, 110, 116, 101, 110, 32, 77, 83, 71, 41>>
FileWord == <<102, 105, 108, 101>>

\* a || b on strings
Or(a, b) == IF a # <<>> THEN a ELSE b

\* arr.map(f).filter(Boolean) once f has been applied: drop the empty strings.
RECURSIVE FilterNonEmpty(_)
FilterNonEmpty(names) ==
  IF Len(names) = 0 THEN <<>>
  ELSE (IF names[1] # <<>> THEN <<names[1]>> ELSE <<>>) \o FilterNonEmpty(Tail(names))

\* The scan without the comparison after the loop: a run that reaches the
\* end of the buffer is not considered.
RECURSIVE LongestRunNoTail(_, _, _, _)
LongestRunNoTail(bytes, i, cur, longest) ==
  IF i > Len(bytes)
  THEN longest
  ELSE IF bytes[i] >= 32 /\ bytes[i] < 127
       THEN LongestRunNoTail(bytes, i + 1, Append(cur, bytes[i]), longest)
       ELSE LongestRunNoTail(bytes, i + 1, <<>>,
                             IF Len(cur) > Len(longest) THEN cur ELSE longest)

\* convert.js lines 150-158: the longest run of bytes 32..126, the earliest
\* among the longest; cur is the run being read, longest the best so far.
RECURSIVE LongestRunFrom(_, _, _, _)
LongestRunFrom(bytes, i, cur, longest) ==
  IF i > Len(bytes)
  THEN (IF Len(cur) > Len(longest) THEN cur ELSE longest)
  ELSE IF bytes[i] >= 32 /\ bytes[i] < 127
       THEN LongestRunFrom(bytes, i + 1, Append(cur, bytes[i]), longest)
       ELSE LongestRunFrom(bytes, i + 1, <<>>,
                           IF Len(cur) > Len(longest) THEN cur ELSE longest)

\* The scan without the placeholder it falls back on.
SalvageTextNoPlaceholder(buf) == LongestRunFrom(buf, 1, <<>>, <<>>)

\* convert.js line 159: longest || "(Tidak dapat membaca konten MSG)"
SalvageText(buf) == Or(LongestRunFrom(buf, 1, <<>>, <<>>), CannotReadMsg)

\* convert.js extractMSG, the try branch, from msgreader's getFileData() d.
MsgFieldsJs(d) ==
  [subject |-> Or(d.subject, NoSubject),
   from |-> IF d.senderName # <<>>
            THEN d.senderName \o (IF d.senderEmail # <<>>
                                  THEN <<32, 60>> \o d.senderEmail \o <<62>> ELSE <<>>)
            ELSE Or(d.senderEmail, Unknown),
   to |-> Or(Join(FilterNonEmpty([i \in 1..Len(d.recipients) |->
                                    Or(d.recipients[i].name, d.recipients[i].email)]),
                  CommaSpace), Unknown),
   cc |-> <<>>,
   date |-> Or(d.messageDeliveryTime, d.clientSubmitTime),
   body |-> d.body,
   attachments |-> [i \in 1..Len(d.attachments) |->
                      Or(Or(d.attachments[i].fileName, d.attachments[i].name), FileWord)]]

\* convert.js extractMSG: r is what new MsgReader(buf).getFileData() came to.
extractMSGJs(buf, r) ==
  IF r.threw THEN Returned("salvage", GenericDoc(SalvageText(buf)))
  ELSE Returned("structured", EmailDoc("js", MsgFieldsJs(r.d)))

\* ---- convert.mts: the hardened .msg extractor

\* clean(s): NULs removed, trimmed ("" for anything that is not a string).
clean(s) == Trim(Without(s, {0}))

\* s.replace(/[S]{n,}/g, rep): every maximal run of characters of S that is
\* at least n long is replaced by rep.
RunEnd(s, S, i) ==
  CHOOSE j \in i..Len(s) :
    /\ \A k \in i..j : s[k] \in S
    /\ (j = Len(s) \/ s[j + 1] \notin S)

RECURSIVE ReplaceRunsFrom(_, _, _, _, _)
ReplaceRunsFrom(s, S, n, rep, i) ==
  IF i > Len(s) THEN <<>>
  ELSE IF s[i] \in S
       THEN LET j == RunEnd(s, S, i)
            IN  (IF j - i + 1 >= n THEN rep ELSE SubSeq(s, i, j))
                  \o ReplaceRunsFrom(s, S, n, rep, j + 1)
       ELSE <<s[i]>> \o ReplaceRunsFrom(s, S, n, rep, i + 1)

ReplaceRuns(s, S, n, rep) == ReplaceRunsFrom(s, S, n, rep, 1)

ControlChars == (0..8) \cup {11, 12} \cup (14..31) \cup {127}

\* The character class of line 134 of convert.mts.
Mojibake ==
  {208, 8482, 214, 246, 226, 212, 247, 8224, 230, 182, 231, 198, 194, 8211, 8212,
   34, 8222, 8240, 169, 174}

\* scrub(s): the seven steps of lines 130-137, in order.
scrub(s) ==
  LET s1 == Without(s, ControlChars)
      s2 == Without(s1, 128..159)
      s3 == Without(s2, {65533, 65534, 65535})
      s4 == ReplaceRuns(s3, Mojibake, 3, <<>>)
      s5 == ReplaceRuns(s4, {32, 9}, 1, <<32>>)
      s6 == ReplaceRuns(s5, {10}, 3, <<10, 10>>)
  IN  Trim(s6)

\* Buffer.toString("utf16le"): one code unit per byte pair, low byte first;
\* a trailing odd byte is dropped.
RECURSIVE Utf16leDecode(_)
Utf16leDecode(b) ==
  IF Len(b) < 2 THEN <<>>
  ELSE <<b[1] + 256 * b[2]>> \o Utf16leDecode(SubSeq(b, 3, Len(b)))

\* msgStr(content, name): name.includes("001F") selects UTF-16LE.
msgStr(c, unicode) ==
  IF Len(c) = 0 THEN <<>>
  ELSE Trim(Without(IF unicode THEN Utf16leDecode(c) ELSE Utf8Decode(c), {0}))

\* s.includes(sub)
Includes(s, sub) ==
  \E i \in 1..(Len(s) + 1) :
    i + Len(sub) - 1 <= Len(s) /\ SubSeq(s, i, i + Len(sub) - 1) = sub

Contains(names, x) == \E i \in 1..Len(names) : names[i] = x

NoMsgFields ==
  [subject |-> <<>>, from |-> <<>>, senderEmail |-> <<>>, to |-> <<>>, cc |-> <<>>,
   date |-> <<>>, body |-> <<>>, bodyHtml |-> <<>>, attachmentNames |-> <<>>]

\* Method 1 (lines 66-77): the fields as msgreader gives them, cleaned; r is
\* what new MsgReader(buf).getFileData() came to.
MsgMethod1(r) ==
  IF r.threw THEN NoMsgFields
  ELSE LET d == r.d
       IN  [subject |-> clean(d.subject),
            from |-> clean(d.senderName),
            senderEmail |-> clean(d.senderEmail),
            to |-> Join(FilterNonEmpty([i \in 1..Len(d.recipients) |->
                          clean(Or(d.recipients[i].name, d.recipients[i].email))]),
                        CommaSpace),
            cc |-> <<>>,
            date |-> clean(Or(d.messageDeliveryTime, d.clientSubmitTime)),
            body |-> clean(d.body),
            bodyHtml |-> d.bodyHtml,
            attachmentNames |-> FilterNonEmpty([i \in 1..Len(d.attachments) |->
                                  clean(Or(d.attachments[i].fileName, d.attachments[i].name))])]

\* The loop with the tests on the fields' being empty left out: a later
\* entry overwrites.
MsgEntryLastWins(f, e) ==
  IF e.type # 2 \/ Len(e.content) = 0 THEN f
  ELSE LET str == msgStr(e.content, e.unicode)
           fill(tags, cur) == IF e.tag \in tags THEN str ELSE cur
       IN  [subject |-> fill({"0037"}, f.subject),
            from |-> fill({"0C1A"}, f.from),
            senderEmail |-> fill({"0C1F", "0065"}, f.senderEmail),
            to |-> fill({"0E04"}, f.to),
            cc |-> fill({"0E03"}, f.cc),
            date |-> f.date,
            body |-> fill({"1000"}, f.body),
            bodyHtml |-> fill({"1013"}, f.bodyHtml),
            attachmentNames |->
              IF e.tag = "3707" /\ str # <<>> /\ ~Contains(f.attachmentNames, str)
              THEN Append(f.attachmentNames, str) ELSE f.attachmentNames]

\* One turn of the loop of lines 82-98 over a storage entry e.  The name of
\* an entry is "__substg1.0_" followed by its property tag and its type
\* code: e.tag is the tag, e.unicode whether the type code is 001F.
MsgEntry(f, e) ==
  IF e.type # 2 \/ Len(e.content) = 0 THEN f
  ELSE LET str == msgStr(e.content, e.unicode)
           fill(tags, cur) == IF e.tag \in tags /\ cur = <<>> THEN str ELSE cur
       IN  [subject |-> fill({"0037"}, f.subject),
            from |-> fill({"0C1A"}, f.from),
            senderEmail |-> fill({"0C1F", "0065"}, f.senderEmail),
            to |-> fill({"0E04"}, f.to),
            cc |-> fill({"0E03"}, f.cc),
            date |-> f.date,
            body |-> fill({"1000"}, f.body),
            bodyHtml |-> fill({"1013"}, f.bodyHtml),
            attachmentNames |->
              IF e.tag = "3707" /\ str # <<>> /\ ~Contains(f.attachmentNames, str)
              THEN Append(f.attachmentNames, str) ELSE f.attachmentNames]

RECURSIVE MsgEntries(_, _)
MsgEntries(f, entries) ==
  IF Len(entries) = 0 THEN f ELSE MsgEntries(MsgEntry(f, entries[1]), Tail(entries))

\* Method 2 (lines 80-99): c is what CFB.read(buf) came to, c.entries its
\* FileIndex in storage order.
MsgMethod2(f, c) == IF c.threw THEN f ELSE MsgEntries(f, c.entries)

\* Lines 102-111: scrubbing, placeholders and the sender's address.
MsgFieldsMts(f) ==
  LET from0 == Or(scrub(f.from), Unknown)
  IN  [subject |-> Or(scrub(f.subject), NoSubject),
       from |-> IF f.senderEmail # <<>> /\ ~Includes(from0, f.senderEmail)
                THEN from0 \o <<32, 60>> \o scrub(f.senderEmail) \o <<62>>
                ELSE from0,
       to |-> Or(scrub(f.to), Unknown),
       cc |-> scrub(f.cc),
       date |-> scrub(f.date),
       body |-> scrub(f.body),
       attachments |-> FilterNonEmpty([i \in 1..Len(f.attachmentNames) |->
                                        scrub(f.attachmentNames[i])])]

\* convert.mts extractMSG: neither reader's failure leaves the function; the
\* document is an e-mail document whatever the two readers came to.
extractMSGMts(buf, r, c) ==
  Returned(IF r.threw /\ c.threw THEN "salvage" ELSE "structured",
           EmailDoc("mts", MsgFieldsMts(MsgMethod2(MsgMethod1(r), c))))

extractMSG(v, buf, o) ==
  IF v = "js" THEN extractMSGJs(buf, o.msgreader)
  ELSE extractMSGMts(buf, o.msgreader, o.cfb)

\* ---- the other extractors (the same in both variants)

\* extractEML: r is what simpleParser(buf) came to; r.p.from, r.p.to and
\* r.p.cc are the .text of the address objects ("" when absent), r.p.date
\* the date as toLocaleString("id-ID") prints it ("" when absent).
extractEML(v, buf, r) ==
  IF r.threw THEN Returned("salvage", GenericDoc(Utf8Decode(buf)))
  ELSE Returned("structured",
         EmailDoc(v, [subject |-> Or(r.p.subject, NoSubject),
                      from |-> Or(r.p.from, Unknown),
                      to |-> Or(r.p.to, Unknown),
                      cc |-> r.p.cc,
                      date |-> r.p.date,
                      body |-> r.p.text,
                      attachments |-> [i \in 1..Len(r.p.attachments) |->
                                         Or(r.p.attachments[i].filename, FileWord)]]))

\* extractDOCX: r is what the two mammoth calls came to; there is no catch.
extractDOCX(buf, r) ==
  IF r.threw THEN Raised(r.err) ELSE Returned("structured", GenericDoc(r.text))

\* s.replace(/<[^>]+>/g, " "): a tag runs from '<' to the first '>' after
\* it, with at least one character in between.
TagEnd(s, i) ==
  IF \E j \in (i + 2)..Len(s) : s[j] = 62 /\ \A k \in (i + 1)..(j - 1) : s[k] # 62
  THEN CHOOSE j \in (i + 2)..Len(s) : s[j] = 62 /\ \A k \in (i + 1)..(j - 1) : s[k] # 62
  ELSE 0

RECURSIVE StripTagsFrom(_, _)
StripTagsFrom(s, i) ==
  IF i > Len(s) THEN <<>>
  ELSE IF s[i] = 60 /\ TagEnd(s, i) # 0
       THEN <<32>> \o StripTagsFrom(s, TagEnd(s, i) + 1)
       ELSE <<s[i]>> \o StripTagsFrom(s, i + 1)

\* The text view of html/htm: tags to spaces, white space collapsed, trimmed.
HtmlToText(s) == Trim(ReplaceRuns(StripTagsFrom(s, 1), WsChars, 1, <<32>>))

\* A cell of the table of the html view: its tag and its escaped text.
Cell(tag, text) == [tag |-> tag, text |-> text]

\* The rows without the str.trim() before the split.
CsvTableUntrimmed(str) ==
  LET rows == Split(str, 10)
  IN  [i \in 1..Len(rows) |->
         LET cells == Split(rows[i], 44)
         IN  [j \in 1..Len(cells) |->
                Cell(IF i = 1 THEN "th" ELSE "td", esc(Trim(cells[j])))]]

\* extractCSV, the html view: the <tr> rows of the table, each the sequence
\* of its <th> or <td> cells.
CsvTable(str) ==
  LET rows == Split(Trim(str), 10)
  IN  [i \in 1..Len(rows) |->
         LET cells == Split(rows[i], 44)
         IN  [j \in 1..Len(cells) |->
                Cell(IF i = 1 THEN "th" ELSE "td", esc(Trim(cells[j])))]]

\* extractCSV: the text view is the string as it came.
extractCSV(str) == Returned("direct", GenericDoc(str))

\* JSON.stringify(JSON.parse(str), null, 2) over the characters of Bytes: the
\* only JSON texts are numbers written with the digit 1, with JSON white
\* space around them, and they print as they were written.
JsonWs == {9, 10, 13, 32}

RECURSIVE JsonTrimStart(_)
JsonTrimStart(s) == IF Len(s) > 0 /\ s[1] \in JsonWs THEN JsonTrimStart(Tail(s)) ELSE s

RECURSIVE JsonTrimEnd(_)
JsonTrimEnd(s) ==
  IF Len(s) > 0 /\ s[Len(s)] \in JsonWs THEN JsonTrimEnd(SubSeq(s, 1, Len(s) - 1)) ELSE s

JsonNumber(str) == JsonTrimEnd(JsonTrimStart(str))

JsonParses(str) ==
  Len(JsonNumber(str)) > 0 /\ \A i \in 1..Len(JsonNumber(str)) : JsonNumber(str)[i] = 49

extractJSON(str) ==
  IF JsonParses(str) THEN Returned("structured", GenericDoc(JsonNumber(str)))
  ELSE Returned("salvage", GenericDoc(str))

ExtMsg == <<109, 115, 103>>
ExtEml == <<101, 109, 108>>
ExtDocx == <<100, 111, 99, 120>>
ExtHtml == <<104, 116, 109, 108>>
ExtHtm == <<104, 116, 109>>
ExtCsv == <<99, 115, 118>>
ExtJson == <<106, 115, 111, 110>>

\* extract(buf, ext); o holds what the library calls of this extraction came to.
extract(v, buf, ext, o) ==
  CASE ext = ExtMsg -> extractMSG(v, buf, o)
    [] ext = ExtEml -> extractEML(v, buf, o.mailparser)
    [] ext = ExtDocx -> extractDOCX(buf, o.mammoth)
    [] ext \in {ExtHtml, ExtHtm} -> Returned("direct", GenericDoc(HtmlToText(Utf8Decode(buf))))
    [] ext = ExtCsv -> extractCSV(Utf8Decode(buf))
    [] ext = ExtJson -> extractJSON(Utf8Decode(buf))
    [] OTHER -> Returned("direct", GenericDoc(Utf8Decode(buf)))

\* ------------------------------------------------------------- rendering

\* What the PDF and DOCX renderers put on the page, in order: a shaded box,
\* a heading, the subject, a labelled header field, a horizontal rule, and
\* body text.
Box == [op |-> "box", label |-> "", s |-> <<>>]
Rule == [op |-> "rule", label |-> "", s |-> <<>>]
Heading(label) == [op |-> "heading", label |-> label, s |-> <<>>]
SubjectOp(s) == [op |-> "subject", label |-> "", s |-> s]
Field(label, s) == [op |-> "field", label |-> label, s |-> s]
BodyOp(s) == [op |-> "body", label |-> "", s |-> s]

\* The operations only the e-mail layout draws.
EmailOps == {"box", "rule", "heading", "subject", "field"}

EmailWord == <<69, 109, 97, 105, 108>>

If(cond, ops) == IF cond THEN ops ELSE <<>>

AttachmentNames(m) == Join(m.attachments, CommaSpace)

\* One paragraph per line: for (const line of text.split("\n")).
BodyParagraphs(text) ==
  LET lines == Split(text, 10) IN [i \in 1..Len(lines) |-> BodyOp(lines[i])]

\* convert.js generatePDF, lines 252-283.
PdfOpsJs(c) ==
  IF c.kind = "email"
  THEN <<Box, SubjectOp(Or(c.m.subject, EmailWord)),
         Field("From: ", c.m.from), Field("To: ", c.m.to)>>
       \o If(c.m.cc # <<>>, <<Field("CC: ", c.m.cc)>>)
       \o If(c.m.date # <<>>, <<Field("Date: ", c.m.date)>>)
       \o If(Len(c.m.attachments) > 0, <<Field("Attachments: ", AttachmentNames(c.m))>>)
       \o <<Rule, BodyOp(PdfBodyText("js", c.text))>>
  ELSE <<BodyOp(c.text)>>

\* convert.mts generatePDF, lines 209-248.
PdfOpsMts(c) ==
  IF c.kind = "email"
  THEN If(c.m.date # <<>>, <<Field("", c.m.date)>>)
       \o <<Heading("Itinerary & E-Ticket Receipt"), Box, Heading("Contact Information")>>
       \o If(c.m.from # <<>>, <<Field("From: ", c.m.from)>>)
       \o If(c.m.to # <<>>, <<Field("To: ", c.m.to)>>)
       \o If(c.m.cc # <<>>, <<Field("CC: ", c.m.cc)>>)
       \o If(Len(c.m.attachments) > 0, <<Field("Attachments: ", AttachmentNames(c.m))>>)
       \o <<Rule, BodyOp(PdfBodyText("mts", c.text))>>
  ELSE <<BodyOp(c.text)>>

\* convert.js generateDOCX, lines 293-352.
DocxOpsJs(c) ==
  IF c.kind = "email"
  THEN <<SubjectOp(Or(c.m.subject, EmailWord))>>
       \o If(c.m.from # <<>>, <<Field("From: ", c.m.from)>>)
       \o If(c.m.to # <<>>, <<Field("To: ", c.m.to)>>)
       \o If(c.m.cc # <<>>, <<Field("CC: ", c.m.cc)>>)
       \o If(c.m.date # <<>>, <<Field("Date: ", c.m.date)>>)
       \o If(Len(c.m.attachments) > 0, <<Field("Attachments: ", AttachmentNames(c.m))>>)
       \o <<Rule>> \o BodyParagraphs(DocxBodyText("js", c.text))
  ELSE BodyParagraphs(c.text)

\* convert.mts generateDOCX, lines 260-286.
DocxOpsMts(c) ==
  IF c.kind = "email"
  THEN If(c.m.date # <<>>, <<Field("", c.m.date)>>)
       \o <<Heading("Itinerary & E-Ticket Receipt"), Heading("Contact Information")>>
       \o If(c.m.from # <<>>, <<Field("From: ", c.m.from)>>)
       \o If(c.m.to # <<>>, <<Field("To: ", c.m.to)>>)
       \o If(c.m.cc # <<>>, <<Field("CC: ", c.m.cc)>>)
       \o If(Len(c.m.attachments) > 0, <<Field("Attachments: ", AttachmentNames(c.m))>>)
       \o <<Rule>> \o BodyParagraphs(DocxBodyText("mts", c.text))
  ELSE BodyParagraphs(c.text)

\* What convert() comes to: the renderer's { mime, name, bytes } or an error.
\* The bytes of a PDF or DOCX are the page operations (ops); those of a text
\* file are bytes; the hypertext shell around content.html is left opaque.
Rendered(mime, name, ops, bytes) ==
  [ok |-> TRUE, mime |-> mime, name |-> name, ops |-> ops, bytes |-> bytes, err |-> ""]

Failed(err) ==
  [ok |-> FALSE, mime |-> "", name |-> <<>>, ops |-> <<>>, bytes |-> <<>>, err |-> err]

\* generatePDF: ro is what pdfkit came to (its "error" event rejects).
generatePDF(v, c, baseName, ro) ==
  IF ro.threw THEN Failed(ro.err)
  ELSE Rendered("application/pdf", baseName \o <<46, 112, 100, 102>>,
                IF v = "js" THEN PdfOpsJs(c) ELSE PdfOpsMts(c), <<>>)

\* generateDOCX: ro is what docx's Packer.toBuffer came to.
generateDOCX(v, c, baseName, ro) ==
  IF ro.threw THEN Failed(ro.err)
  ELSE Rendered("application/vnd.openxmlformats-officedocument.wordprocessingml.document",
                baseName \o <<46, 100, 111, 99, 120>>,
                IF v = "js" THEN DocxOpsJs(c) ELSE DocxOpsMts(c), <<>>)

\* generateTXT (convert.js) and the "txt" arm of convert (convert.mts).
generateTXT(c, baseName) ==
  Rendered("text/plain; charset=utf-8", baseName \o <<46, 116, 120, 116>>,
           <<>>, Utf8Encode(c.text))

generateHTML(c, baseName) ==
  Rendered("text/html; charset=utf-8", baseName \o <<46, 104, 116, 109, 108>>, <<>>, <<>>)

\* The message of the Error convert() throws for a format it does not know
\* (the format it quotes is left out).
Unsupported == "Format tidak didukung"

\* convert(content, format, baseName)
convert(v, c, format, baseName, ro) ==
  CASE format = "pdf" -> generatePDF(v, c, baseName, ro)
    [] format = "docx" -> generateDOCX(v, c, baseName, ro)
    [] format = "txt" -> generateTXT(c, baseName)
    [] format = "html" -> generateHTML(c, baseName)
    [] OTHER -> Failed(Unsupported)

\* ------------------------------------------------- library outcomes

Hi == <<72, 105>>
Hello == <<72, 101, 108, 108, 111>>
AddrA == <<97, 64, 120>>
AddrB == <<98, 64, 121>>
AddrC == <<99, 64, 122>>
ADate == <<49, 46, 49, 46, 50, 48, 50, 52>>
FBin == <<102, 46, 98, 105, 110>>

\* getFileData() of a container msgreader reads nothing from.
EmptyData ==
  [subject |-> <<>>, senderName |-> <<>>, senderEmail |-> <<>>, recipients |-> <<>>,
   messageDeliveryTime |-> <<>>, clientSubmitTime |-> <<>>, body |-> <<>>,
   bodyHtml |-> <<>>, attachments |-> <<>>]

FullData ==
  [subject |-> Hi, senderName |-> <<65>>, senderEmail |-> AddrA,
   recipients |-> <<[name |-> <<>>, email |-> AddrB]>>,
   messageDeliveryTime |-> <<>>, clientSubmitTime |-> ADate, body |-> Hello,
   bodyHtml |-> <<>>, attachments |-> <<[fileName |-> <<>>, name |-> FBin]>>]

MsgReads(D) ==
  {[threw |-> TRUE, d |-> EmptyData]} \cup {[threw |-> FALSE, d |-> x] : x \in D}

StorageEntry(tag, unicode, c) == [tag |-> tag, unicode |-> unicode, type |-> 2, content |-> c]

SampleIndexes ==
  {<<>>,
   <<StorageEntry("0037", FALSE, Hi), StorageEntry("1000", TRUE, <<72, 0, 105, 0>>)>>}

CfbReads(E) ==
  {[threw |-> TRUE, entries |-> <<>>]} \cup {[threw |-> FALSE, entries |-> e] : e \in E}

EmptyMail ==
  [subject |-> <<>>, from |-> <<>>, to |-> <<>>, cc |-> <<>>, date |-> <<>>,
   text |-> <<>>, attachments |-> <<>>]

FullMail ==
  [subject |-> Hi, from |-> AddrA, to |-> AddrB, cc |-> AddrC, date |-> ADate,
   text |-> Hello, attachments |-> <<[filename |-> <<>>]>>]

MailReads(P) ==
  {[threw |-> TRUE, p |-> EmptyMail]} \cup {[threw |-> FALSE, p |-> x] : x \in P}

\* mammoth: it rejects what is no word-processing package, and the raw text
\* of a package with no text in it is "".
MammothReads ==
  {[threw |-> TRUE, err |-> "Can't find end of central directory", text |-> <<>>],
   [threw |-> FALSE, err |-> "", text |-> <<>>],
   [threw |-> FALSE, err |-> "", text |-> Hello]}

NoReads ==
  [msgreader |-> [threw |-> TRUE, d |-> EmptyData],
   cfb |-> [threw |-> TRUE, entries |-> <<>>],
   mailparser |-> [threw |-> TRUE, p |-> EmptyMail],
   mammoth |-> [threw |-> TRUE, err |-> "", text |-> <<>>]]

\* The library outcomes an extraction of a file of extension ext can meet.
Reads(v, ext, D, E, P) ==
  CASE ext = ExtMsg ->
         {[NoReads EXCEPT !.msgreader = r, !.cfb = c] :
            r \in MsgReads(D),
            c \in IF v = "mts" THEN CfbReads(E) ELSE {NoReads.cfb}}
    [] ext = ExtEml -> {[NoReads EXCEPT !.mailparser = r] : r \in MailReads(P)}
    [] ext = ExtDocx -> {[NoReads EXCEPT !.mammoth = r] : r \in MammothReads}
    [] OTHER -> {NoReads}

\* pdfkit and docx's Packer: they finish, or fail with a message (which may
\* be empty).
RenderOutcomes ==
  {[threw |-> FALSE, err |-> ""], [threw |-> TRUE, err |-> "render failed"],
   [threw |-> TRUE, err |-> ""]}

\* ---------------------------------------------------------- the handler

Methods == {"OPTIONS", "POST", "GET"}

\* targetFormat as the form gives it; "" stands for an empty or absent field.
Formats == {"", "pdf", "docx", "txt", "html", "foo"}

FileNames ==
  {<<>>,                                   \* no name: "file" is used
   <<97, 46, 109, 115, 103>>,              \* a.msg
   <<65, 46, 77, 83, 71>>,                 \* A.MSG
   <<97, 46, 101, 109, 108>>,              \* a.eml
   <<97, 46, 100, 111, 99, 120>>,          \* a.docx
   <<97, 46, 104, 116, 109, 108>>,         \* a.html
   <<97, 46, 99, 115, 118>>,               \* a.csv
   <<97, 46, 106, 115, 111, 110>>,         \* a.json
   <<97, 46, 98, 46, 116, 120, 116>>,      \* a.b.txt
   <<109, 115, 103>>,                      \* msg
   <<46, 116, 120, 116>>,                  \* .txt
   <<97, 46>>}                             \* a.

\* The multipart form of a request.  decodes: whether busboy (convert.js)
\* or req.formData() (convert.mts) can read it; err: the message of the
\* error they raise when they cannot.
BadForms ==
  {[decodes |-> FALSE, err |-> e, hasFile |-> FALSE, name |-> <<>>, buf |-> <<>>,
    targetFormat |-> ""] : e \in {"Missing Content-Type", ""}}

GoodForms ==
  {[decodes |-> TRUE, err |-> "", hasFile |-> FALSE, name |-> <<>>, buf |-> <<>>,
    targetFormat |-> f] : f \in Formats}
  \cup {[decodes |-> TRUE, err |-> "", hasFile |-> TRUE, name |-> n, buf |-> b,
         targetFormat |-> f] :
          n \in FileNames, b \in SeqsUpTo(Bytes, MaxBufLen), f \in Formats}

Requests == [method : Methods, form : BadForms \cup GoodForms]

NoEnv == [ext |-> <<>>, baseName |-> <<>>, buf |-> <<>>, fmt |-> ""]
NoContent == [ok |-> FALSE, path |-> "none", doc |-> GenericDoc(<<>>), err |-> ""]
NoResult == Failed("")

\* A response: its status, whether it carries the CORS headers, and its
\* body: empty, a JSON object { error }, or the converted file with the
\* Content-Type (mime) and the Content-Disposition filename (name).
EmptyResp(v, status) ==
  [status |-> status, cors |-> v = "js", body |-> "empty", error |-> "",
   mime |-> "", name |-> <<>>, ops |-> <<>>, bytes |-> <<>>]

ErrorResp(v, status, msg) ==
  [status |-> status, cors |-> v = "js", body |-> "json", error |-> msg,
   mime |-> "application/json", name |-> <<>>, ops |-> <<>>, bytes |-> <<>>]

FileResp(v, r) ==
  [status |-> 200, cors |-> v = "js", body |-> "file", error |-> "",
   mime |-> r.mime, name |-> r.name, ops |-> r.ops, bytes |-> r.bytes]

\* The catch block answering 400.
CaughtRespAs400(v, err) == ErrorResp(v, 400, IF err # "" THEN err ELSE "Conversion failed")

\* err.message || "Conversion failed"
CaughtResp(v, err) == ErrorResp(v, 500, IF err # "" THEN err ELSE "Conversion failed")

\* The check written with && in place of ||.
MissingBothOnly(form) ==
  IF ~form.hasFile /\ form.targetFormat = "" THEN "both" ELSE "nothing"

\* What a form lacks, as the check !fileBuffer || !targetFormat sees it.
Missing(form) ==
  CASE ~form.hasFile /\ form.targetFormat = "" -> "both"
    [] ~form.hasFile -> "file"
    [] form.targetFormat = "" -> "format"
    [] OTHER -> "nothing"

MissingMessage(form) == "Missing file or targetFormat"

\* The response to a form that lacks a part.
MissingResp(v, form) == ErrorResp(v, 400, MissingMessage(form))

\* The handler without its OPTIONS branch.
MethodRespNoOptions(v, method) ==
  IF method # "POST" THEN <<ErrorResp(v, 405, "Method not allowed")>> ELSE <<>>

\* The first lines of the handler: OPTIONS and the methods that are not POST
\* are answered at once; a POST goes on to read its form.
MethodResp(v, method) ==
  CASE method = "OPTIONS" -> <<EmptyResp(v, 200)>>
    [] method # "POST" -> <<ErrorResp(v, 405, "Method not allowed")>>
    [] OTHER -> <<>>

Invoke ==
  /\ pc = "start"
  /\ IF MethodResp(variant, req.method) # <<>>
     THEN /\ resp' = resp \o MethodResp(variant, req.method)
          /\ pc' = "done"
          /\ trace' = trace
     ELSE /\ resp' = resp
          /\ pc' = "parse"
          /\ trace' = trace \cup {"parse"}
  /\ UNCHANGED <<variant, req, env, content, result, log400, xvars, mvars, cvars>>

\* After await parseForm(event) / await req.formData(): the form could not
\* be read (500), lacks a part (400), or gives ext and baseName and extract()
\* is called.
FormParsed ==
  /\ pc = "parse"
  /\ LET form == req.form
         filename == Or(form.name, FileWord)
     IN  IF ~form.decodes
         THEN /\ resp' = Append(resp, CaughtResp(variant, form.err))
              /\ pc' = "done"
              /\ UNCHANGED <<env, trace, log400>>
         ELSE IF Missing(form) # "nothing"
         THEN /\ resp' = Append(resp, MissingResp(variant, form))
              /\ log400' = log400 \cup {[missing |-> Missing(form),
                                         error |-> MissingResp(variant, form).error]}
              /\ pc' = "done"
              /\ UNCHANGED <<env, trace>>
         ELSE /\ env' = [ext |-> ExtOf(filename), baseName |-> BaseNameOf(filename),
                         buf |-> form.buf, fmt |-> form.targetFormat]
              /\ pc' = "extract"
              /\ trace' = trace \cup {"extract"}
              /\ UNCHANGED <<resp, log400>>
  /\ UNCHANGED <<variant, req, content, result, xvars, mvars, cvars>>

\* After await extract(fileBuffer, ext): an error goes to the catch block,
\* a document goes to convert().
Extracted ==
  /\ pc = "extract"
  /\ \E o \in Reads(variant, env.ext, {EmptyData, FullData}, SampleIndexes,
                    {EmptyMail, FullMail}) :
       LET c == extract(variant, env.buf, env.ext, o)
       IN  /\ content' = c
           /\ IF c.ok
              THEN /\ pc' = "convert"
                   /\ trace' = trace \cup {"convert"}
                   /\ resp' = resp
              ELSE /\ pc' = "done"
                   /\ trace' = trace
                   /\ resp' = Append(resp, CaughtResp(variant, c.err))
  /\ UNCHANGED <<variant, req, env, result, log400, xvars, mvars, cvars>>

\* After await convert(content, targetFormat, baseName): the file is sent,
\* or the error goes to the catch block.
Converted ==
  /\ pc = "convert"
  /\ \E ro \in RenderOutcomes :
       LET r == convert(variant, content.doc, env.fmt, env.baseName, ro)
       IN  /\ result' = r
           /\ resp' = Append(resp, IF r.ok THEN FileResp(variant, r)
                                   ELSE CaughtResp(variant, r.err))
  /\ pc' = "done"
  /\ UNCHANGED <<variant, req, env, content, trace, log400, xvars, mvars, cvars>>

Idle == <<>>

\* One invocation, of any request.
Init ==
  /\ variant \in Variants
  /\ req \in Requests
  /\ pc = "start"
  /\ env = NoEnv
  /\ content = NoContent
  /\ result = NoResult
  /\ resp = <<>>
  /\ trace = {}
  /\ log400 = {}
  /\ xin = Idle /\ xout = Idle
  /\ mail = Idle /\ mtext = Idle /\ bodies = Idle
  /\ calls = Idle

Next == Invoke \/ FormParsed \/ Extracted \/ Converted

Spec == Init /\ [][Next]_vars

\* ---- one invocation after another

\* The requests of the specification that serves one request after another:
\* every method, and forms with and without each part.
ServeForms ==
  {f \in BadForms \cup GoodForms :
     /\ f.name \in {<<>>, <<97, 46, 98, 46, 116, 120, 116>>}
     /\ f.buf \in {<<>>, <<65>>}
     /\ f.targetFormat \in {"", "txt", "pdf"}}

ServeRequests == [method : Methods, form : ServeForms]

\* The next invocation: it starts from nothing of the one before.
NextRequest ==
  /\ pc = "done"
  /\ variant' \in Variants
  /\ req' \in ServeRequests
  /\ pc' = "start"
  /\ env' = NoEnv
  /\ content' = NoContent
  /\ result' = NoResult
  /\ resp' = <<>>
  /\ trace' = {}
  /\ UNCHANGED <<log400, xvars, mvars, cvars>>

InitServe == Init /\ req \in ServeRequests

NextServe == Invoke \/ FormParsed \/ Extracted \/ Converted \/ NextRequest

SpecServe == InitServe /\ [][NextServe]_vars

\* ------------------------------------------------------ extraction alone

\* The extensions extract() is given: the seven it knows and one it does not.
Exts == {ExtMsg, ExtEml, ExtDocx, ExtHtml, ExtHtm, ExtCsv, ExtJson, <<116, 120, 116>>}

HandlerIdle ==
  /\ variant = "js" /\ req = Idle /\ pc = "idle" /\ env = NoEnv
  /\ content = NoContent /\ result = NoResult /\ resp = <<>> /\ trace = {}
  /\ log400 = {}
  /\ calls = Idle

\* extract(buf, ext) on every buffer of at most MaxSrcLen bytes.
InitExtract ==
  /\ HandlerIdle
  /\ xin \in [v : Variants, ext : Exts, buf : SeqsUpTo(Bytes, MaxSrcLen)]
  /\ xout = Idle
  /\ mail = Idle /\ mtext = Idle /\ bodies = Idle

Extract ==
  /\ xout = Idle
  /\ \E o \in Reads(xin.v, xin.ext, {EmptyData, FullData}, SampleIndexes,
                    {EmptyMail, FullMail}) :
       xout' = <<[reads |-> o, r |-> extract(xin.v, xin.buf, xin.ext, o)]>>
  /\ UNCHANGED <<hvars, xin, mvars, cvars>>

NextExtract == Extract

SpecExtract == InitExtract /\ [][NextExtract]_vars

\* ------------------------------------------------ canonical layout alone

\* E-mail fields as the extractors hand them to buildTextEmail: subject,
\* from and to are never empty there; the body is any text of at most
\* MaxBodyLen characters drawn from 'A', space, LF and the divider glyph.
BodyChars == {65, 32, 10, DividerGlyph}

Mails ==
  [subject : {Hi}, from : {AddrA}, to : {AddrB}, cc : {<<>>, AddrC},
   date : {<<>>, ADate}, attachments : {<<>>, <<FBin>>, <<FBin, Hi>>},
   body : SeqsUpTo(BodyChars, MaxBodyLen)]

NotBuilt == [built |-> FALSE, text |-> <<>>]
NotRendered == [rendered |-> FALSE, pdf |-> <<>>, docx |-> <<>>]

InitEmail ==
  /\ HandlerIdle
  /\ xin = Idle /\ xout = Idle
  /\ mail \in Mails
  /\ mtext = [v \in Variants |-> NotBuilt]
  /\ bodies = [v \in Variants |-> NotRendered]

\* buildTextEmail of variant v on the e-mail.
BuildText(v) ==
  /\ ~mtext[v].built
  /\ mtext' = [mtext EXCEPT ![v] = [built |-> TRUE, text |-> buildTextEmail(v, mail)]]
  /\ UNCHANGED <<hvars, xvars, mail, bodies, cvars>>

\* The PDF and the DOCX renderer of variant v recover the body from the text.
RenderBodies(v) ==
  /\ mtext[v].built
  /\ ~bodies[v].rendered
  /\ bodies' = [bodies EXCEPT ![v] = [rendered |-> TRUE,
                                      pdf |-> PdfBodyText(v, mtext[v].text),
                                      docx |-> DocxBodyText(v, mtext[v].text)]]
  /\ UNCHANGED <<hvars, xvars, mail, mtext, cvars>>

NextEmail == \E v \in Variants : BuildText(v) \/ RenderBodies(v)

SpecEmail == InitEmail /\ [][NextEmail]_vars

\* ------------------------------------------------- text to text alone

MaxTextLen == 4

\* The bytes text files are built from: 'A', the two bytes of U+00E9 and the
\* three bytes of U+2500; each of the last five alone is ill-formed.
TextBytes == {65, 195, 169, 226, 148, 128}

ExtTxt == <<116, 120, 116>>

\* Extensions of the default arm ("txt", and no extension at all) and "csv".
TextExts == {ExtTxt, <<>>, ExtCsv}

BaseA == <<97>>

\* extract() and then convert(content, "txt", baseName) on every buffer of
\* at most MaxTextLen bytes.
InitText ==
  /\ HandlerIdle
  /\ xin \in [v : Variants, ext : TextExts, buf : SeqsUpTo(TextBytes, MaxTextLen)]
  /\ xout = Idle
  /\ mail = Idle /\ mtext = Idle /\ bodies = Idle

RenderTxt ==
  /\ xout # Idle
  /\ xout[1].r.ok
  /\ result = NoResult
  /\ \E ro \in RenderOutcomes :
       result' = convert(xin.v, xout[1].r.doc, "txt", BaseA, ro)
  /\ UNCHANGED <<variant, req, pc, env, content, resp, trace, log400, xvars, mvars, cvars>>

NextText == Extract \/ RenderTxt

SpecText == InitText /\ [][NextText]_vars

\* ------------------------------------------------------------ CSV alone

MaxCsvLen == 6

\* The characters CSV files are built from: 'A', comma, LF, space, '<'.
CsvBytes == {65, 44, 10, 32, 60}

\* extractCSV on every CSV file of at most MaxCsvLen characters.
InitCsv ==
  /\ HandlerIdle
  /\ xin \in [v : Variants, ext : {ExtCsv}, buf : SeqsUpTo(CsvBytes, MaxCsvLen)]
  /\ xout = Idle
  /\ mail = Idle /\ mtext = Idle /\ bodies = Idle

ExtractCsv ==
  /\ xout = Idle
  /\ xout' = <<[reads |-> NoReads,
                r |-> extract(xin.v, xin.buf, xin.ext, NoReads),
                table |-> CsvTable(Utf8Decode(xin.buf))]>>
  /\ UNCHANGED <<hvars, xin, mvars, cvars>>

NextCsv == ExtractCsv

SpecCsv == InitCsv /\ [][NextCsv]_vars

\* ------------------------------------------- invocations in flight together

\* How many invocations the event loop interleaves.
MaxCalls == 2

CallIds == 1..MaxCalls

NameABTxt == <<97, 46, 98, 46, 116, 120, 116>>
NameAMsg == <<97, 46, 109, 115, 103>>

\* The requests in flight: one of each kind of answer, with different file
\* names, bytes and target formats.
CallForms ==
  {[decodes |-> FALSE, err |-> "Missing Content-Type", hasFile |-> FALSE, name |-> <<>>,
    buf |-> <<>>, targetFormat |-> ""],
   [decodes |-> TRUE, err |-> "", hasFile |-> FALSE, name |-> <<>>, buf |-> <<>>,
    targetFormat |-> "pdf"],
   [decodes |-> TRUE, err |-> "", hasFile |-> TRUE, name |-> NameABTxt, buf |-> <<65>>,
    targetFormat |-> "txt"],
   [decodes |-> TRUE, err |-> "", hasFile |-> TRUE, name |-> NameAMsg, buf |-> <<49>>,
    targetFormat |-> "pdf"],
   [decodes |-> TRUE, err |-> "", hasFile |-> TRUE, name |-> <<>>, buf |-> <<>>,
    targetFormat |-> "foo"]}

CallRequests ==
  [method : {"POST"}, form : CallForms]
    \cup {[method |-> "OPTIONS", form |-> f] : f \in {x \in CallForms : x.targetFormat = "txt"}}

NotRenderedYet == [threw |-> FALSE, err |-> ""]

\* An invocation: the request, the locals of the handler (env, content,
\* result), its responses, and the library outcomes it met.
NewCall(r) ==
  [req |-> r, pc |-> "start", env |-> NoEnv, content |-> NoContent, result |-> NoResult,
   resp |-> <<>>, reads |-> NoReads, ro |-> NotRenderedYet]

\* The form as if fileBuffer, filename and targetFormat were kept outside the call:
\* every invocation reads what the first one collected.
FirstForm(cs, i) == cs[1].req.form

\* The form parseForm / req.formData() hands to invocation i: fileBuffer,
\* filename and targetFormat are locals of the call, so it is the form of
\* its own request.
OwnForm(cs, i) == cs[i].req.form

InitCalls ==
  /\ variant \in Variants
  /\ req = Idle /\ pc = "idle" /\ env = NoEnv
  /\ content = NoContent /\ result = NoResult /\ resp = <<>> /\ trace = {}
  /\ log400 = {}
  /\ xin = Idle /\ xout = Idle
  /\ mail = Idle /\ mtext = Idle /\ bodies = Idle
  /\ calls \in [CallIds -> {NewCall(r) : r \in CallRequests}]

CallInvoke(i) ==
  /\ calls[i].pc = "start"
  /\ calls' = [calls EXCEPT ![i] =
       IF MethodResp(variant, @.req.method) # <<>>
       THEN [@ EXCEPT !.resp = @ \o MethodResp(variant, calls[i].req.method), !.pc = "done"]
       ELSE [@ EXCEPT !.pc = "parse"]]
  /\ UNCHANGED <<hvars, xvars, mvars>>

CallFormParsed(i) ==
  /\ calls[i].pc = "parse"
  /\ LET form == OwnForm(calls, i)
         filename == Or(form.name, FileWord)
     IN  calls' = [calls EXCEPT ![i] =
           IF ~form.decodes
           THEN [@ EXCEPT !.resp = Append(@, CaughtResp(variant, form.err)), !.pc = "done"]
           ELSE IF Missing(form) # "nothing"
           THEN [@ EXCEPT !.resp = Append(@, MissingResp(variant, form)), !.pc = "done"]
           ELSE [@ EXCEPT !.env = [ext |-> ExtOf(filename), baseName |-> BaseNameOf(filename),
                                   buf |-> form.buf, fmt |-> form.targetFormat],
                          !.pc = "extract"]]
  /\ UNCHANGED <<hvars, xvars, mvars>>

CallExtracted(i) ==
  /\ calls[i].pc = "extract"
  /\ \E o \in Reads(variant, calls[i].env.ext, {FullData}, {<<>>}, {FullMail}) :
       LET c == extract(variant, calls[i].env.buf, calls[i].env.ext, o)
       IN  calls' = [calls EXCEPT ![i] =
             IF c.ok
             THEN [@ EXCEPT !.content = c, !.reads = o, !.pc = "convert"]
             ELSE [@ EXCEPT !.content = c, !.reads = o, !.pc = "done",
                            !.resp = Append(@, CaughtResp(variant, c.err))]]
  /\ UNCHANGED <<hvars, xvars, mvars>>

CallConverted(i) ==
  /\ calls[i].pc = "convert"
  /\ \E ro \in RenderOutcomes :
       LET r == convert(variant, calls[i].content.doc, calls[i].env.fmt,
                        calls[i].env.baseName, ro)
       IN  calls' = [calls EXCEPT ![i] =
             [@ EXCEPT !.result = r, !.ro = ro, !.pc = "done",
                       !.resp = Append(@, IF r.ok THEN FileResp(variant, r)
                                          ELSE CaughtResp(variant, r.err))]]
  /\ UNCHANGED <<hvars, xvars, mvars>>

NextCalls ==
  \E i \in CallIds :
    CallInvoke(i) \/ CallFormParsed(i) \/ CallExtracted(i) \/ CallConverted(i)

SpecCalls == InitCalls /\ [][NextCalls]_vars

\* --------------------------------------- the two .msg readers merged

\* Longest storage index.
MaxEntries == 3

\* Storage entries: streams (type 2) of the subject, sender-address and
\* attachment-name tags holding "A", "f.bin" or a space (which decodes to
\* ""), a stream with no content, and a storage (type 1).
IndexEntries ==
  {StorageEntry(t, FALSE, c) :
     t \in {"0037", "0065", "0C1F", "3707"}, c \in {<<65>>, FBin, <<32>>}}
  \cup {StorageEntry("0037", FALSE, <<>>),
        [tag |-> "0037", unicode |-> FALSE, type |-> 1, content |-> <<65>>]}

\* Method 1 and Method 2 of convert.mts extractMSG on every storage index of
\* at most MaxEntries entries.
InitMerge ==
  /\ HandlerIdle
  /\ xin \in [v : {"mts"}, r : MsgReads({EmptyData, FullData}),
              c : CfbReads(SeqsUpTo(IndexEntries, MaxEntries))]
  /\ xout = Idle
  /\ mail = Idle /\ mtext = Idle /\ bodies = Idle

Merge ==
  /\ xout = Idle
  /\ xout' = <<[m1 |-> MsgMethod1(xin.r), f |-> MsgMethod2(MsgMethod1(xin.r), xin.c)]>>
  /\ UNCHANGED <<hvars, xin, mvars, cvars>>

NextMerge == Merge

SpecMerge == InitMerge /\ [][NextMerge]_vars

\* ------------------------------------------- the .msg fallback alone

\* Longest buffer scanned.
MaxScanLen == 5

\* The bytes scanned: the ends of the printable range (32 and 126), 'A', and
\* the bytes just outside it (31 and 127).
ScanBytes == {31, 32, 65, 126, 127}

MsgReaderThrew == [NoReads EXCEPT !.msgreader = [threw |-> TRUE, d |-> EmptyData]]

\* convert.js extractMSG on every buffer of at most MaxScanLen bytes that
\* msgreader rejects.
InitSalvage ==
  /\ HandlerIdle
  /\ xin \in [v : {"js"}, ext : {ExtMsg}, buf : SeqsUpTo(ScanBytes, MaxScanLen)]
  /\ xout = Idle
  /\ mail = Idle /\ mtext = Idle /\ bodies = Idle

Salvage ==
  /\ xout = Idle
  /\ xout' = <<[reads |-> MsgReaderThrew,
                r |-> extract(xin.v, xin.buf, xin.ext, MsgReaderThrew)]>>
  /\ UNCHANGED <<hvars, xin, mvars, cvars>>

NextSalvage == Salvage

SpecSalvage == InitSalvage /\ [][NextSalvage]_vars

\* ================================================================ claims

Supported == {"pdf", "docx", "txt", "html"}

Answered == pc = "done"

\* The one response of an answered request.
TheResp == resp[1]

PostWithForm == req.method = "POST" /\ req.form.decodes

LacksPart == ~req.form.hasFile \/ req.form.targetFormat = ""

\* C1: a POST that carries a file and a target format that is none of pdf,
\* docx, txt, html is answered at once, before extraction is entered, with a
\* 4xx status and no converted bytes.
C1_UnsupportedFormatIsClientError ==
  (Answered /\ PostWithForm /\ req.form.hasFile
     /\ req.form.targetFormat \notin Supported \cup {""})
  => /\ Len(resp) = 1
     /\ TheResp.status >= 400 /\ TheResp.status <= 499
     /\ TheResp.body # "file"
     /\ "extract" \notin trace

\* C2 as claimed: every POST that lacks the file or the target format gets a
\* 400, without extraction or rendering, and the message tells which part is
\* missing: a request lacking only the file and a request lacking only the
\* target format never get the same message.
C2_MessageTellsWhichIsMissing ==
  /\ (Answered /\ req.method = "POST" /\ LacksPart)
     => /\ Len(resp) = 1
        /\ TheResp.status = 400
        /\ trace \cap {"extract", "convert"} = {}
  /\ \A a, b \in log400 :
       (a.missing = "file" /\ b.missing = "format") => a.error # b.error

\* C2 as amended: every POST whose form can be decoded and lacks the file or
\* the target format gets a 400 with the one message "Missing file or
\* targetFormat", whichever part is missing, and neither extraction nor
\* rendering is entered for it; a POST whose form cannot be decoded gets a
\* 500, and no extraction or rendering either.
C2_MissingPartIs400 ==
  /\ (Answered /\ req.method = "POST" /\ ~req.form.decodes)
     => /\ Len(resp) = 1
        /\ TheResp.status = 500
        /\ trace \cap {"extract", "convert"} = {}
  /\ (Answered /\ PostWithForm /\ LacksPart)
     => /\ Len(resp) = 1
        /\ TheResp.status = 400
        /\ TheResp.body = "json"
        /\ TheResp.error = "Missing file or targetFormat"
        /\ trace \cap {"extract", "convert"} = {}
        /\ content = NoContent /\ result = NoResult
  /\ \A a \in log400 : a.error = "Missing file or targetFormat"

\* C2 witness: a request that lacks only the file has been answered after
\* one that lacked only the target format.
C2_Witness ==
  /\ Answered /\ PostWithForm
  /\ ~req.form.hasFile /\ req.form.targetFormat = "pdf"
  /\ \E a \in log400 : a.missing = "format"

\* What C3 says of every status but where a 200 comes from.
C3_StatusRules(has400) ==
  Answered =>
    /\ Len(resp) = 1
    /\ TheResp.status \in {200, 400, 405, 500}
    /\ (TheResp.status = 405) <=> (req.method \notin {"POST", "OPTIONS"})
    /\ (TheResp.status = 400) <=> has400
    /\ (TheResp.status = 500) <=>
         (req.method = "POST" /\ ~has400 /\ ~(content.ok /\ result.ok))
    /\ (TheResp.status \notin 200..299) =>
         (TheResp.body = "json" /\ TheResp.error # "")

\* A 200 that carries the renderer's file.
C3_FileOk ==
  /\ content.ok /\ result.ok
  /\ TheResp.body = "file"
  /\ TheResp.mime = result.mime
  /\ TheResp.name = result.name

\* No request is answered twice, and none before the handler is done.
C3_OneResponse ==
  /\ Len(resp) <= 1
  /\ (pc # "done") => (Len(resp) = 0)

\* C3 as claimed: 200 only when extraction and rendering both succeeded, with
\* the renderer's MIME type and filename; 405 exactly for a method that is
\* neither POST nor OPTIONS; 400 exactly for a POST that lacks the file or
\* the target format; 500 for every other failure; a JSON error body on every
\* status that is not 2xx; one response per request.
C3_StatusByRequest ==
  /\ C3_StatusRules(req.method = "POST" /\ LacksPart)
  /\ C3_OneResponse
  /\ (Answered /\ TheResp.status = 200) => C3_FileOk

\* C3 as amended: a 200 is the empty answer to OPTIONS or carries the file of
\* an extraction and a rendering that both succeeded; 400 exactly for a POST
\* whose form could be decoded and lacks the file or the target format (a
\* POST whose form cannot be decoded is one of the other failures: 500); the
\* rest as claimed.
C3_StatusByRequestAmended ==
  /\ C3_StatusRules(PostWithForm /\ LacksPart)
  /\ C3_OneResponse
  /\ (Answered /\ TheResp.status = 200) =>
       IF req.method = "OPTIONS" THEN TheResp.body = "empty" /\ trace = {}
       ELSE C3_FileOk

\* C3 witness: a POST answered 200 with a rendered PDF.
C3_Witness ==
  /\ Answered /\ req.method = "POST" /\ TheResp.status = 200
  /\ env.fmt = "pdf" /\ TheResp.mime = "application/pdf"

\* C4: an OPTIONS request, whatever else it carries, is answered 200 with an
\* empty body, and the handler never enters form parsing, extraction or
\* rendering for it.
C4_OptionsAlwaysEmpty200 ==
  (req.method = "OPTIONS") =>
    /\ pc \in {"start", "done"}
    /\ trace = {}
    /\ content = NoContent /\ result = NoResult
    /\ Answered => (Len(resp) = 1 /\ TheResp.status = 200 /\ TheResp.body = "empty")

\* C4 witness: an OPTIONS request with a file and an unsupported target
\* format has been answered.
C4_Witness ==
  /\ Answered /\ req.method = "OPTIONS"
  /\ req.form.hasFile /\ req.form.targetFormat = "foo"
  /\ TheResp.status = 200

\* ---- extraction

Extracted1 == xout # Idle

\* The outcome of the extraction that has run.
TheDoc == xout[1].r

\* C5: whatever the extension and the bytes, extract() returns a document
\* and raises nothing to the handler.
C5_ExtractNeverRaises == Extracted1 => TheDoc.ok

C7_TextNeverEmpty ==
  (Extracted1 /\ TheDoc.ok /\ Len(xin.buf) >= 1) => Len(TheDoc.doc.text) > 0

\* ---- e-mail layout

HasEmailOps(ops) == \E i \in 1..Len(ops) : ops[i].op \in EmailOps

ParsedMail == content.path = "structured" /\ env.ext \in {ExtMsg, ExtEml}

\* C8: the renderers draw the e-mail layout only for a document whose type
\* is "email"; the extractors give that type only to what a structured
\* extraction of a msg or eml file produced; so the document of a salvage
\* fallback or of another extension is rendered with the generic layout.
C8_EmailLayoutOnlyForParsedMail ==
  /\ (Answered /\ content.ok /\ result.ok /\ HasEmailOps(result.ops))
       => content.doc.kind = "email"
  /\ (content.ok /\ content.doc.kind = "email") => ParsedMail
  /\ (Answered /\ content.ok /\ result.ok /\ ~ParsedMail)
       => ~HasEmailOps(result.ops)

\* The canonical layout, read line by line, of the text variant v has built,
\* with a divider of d glyphs.
C9_Layout(v, d) ==
  mtext[v].built =>
    LET lines == Split(mtext[v].text, 10)
        hasCc == mail.cc # <<>>
        hasDate == mail.date # <<>>
        hasAtt == Len(mail.attachments) > 0
        iCc == 3 + (IF hasCc THEN 1 ELSE 0)
        iDate == iCc + (IF hasDate THEN 1 ELSE 0)
        n == iDate + (IF hasAtt THEN 1 ELSE 0)
    IN  /\ Len(lines) >= n + 4
        /\ lines[1] = SubjectLabel \o mail.subject
        /\ lines[2] = FromLabel \o mail.from
        /\ lines[3] = ToLabel \o mail.to
        /\ hasCc => lines[iCc] = CcLabel \o mail.cc
        /\ hasDate => lines[iDate] = DateLabel \o mail.date
        /\ hasAtt => lines[n] = AttachmentsLabel \o Join(mail.attachments, CommaSpace)
        /\ lines[n + 1] = <<>>
        /\ lines[n + 2] = [i \in 1..d |-> DividerGlyph]
        /\ lines[n + 3] = <<>>
        /\ Join(SubSeq(lines, n + 4, Len(lines)), <<10>>) = mail.body

\* C9 as claimed: the text has the lines Subject, From, To, CC iff there is
\* a cc, Date iff there is a date, Attachments iff there are attachments,
\* a blank line, the divider, a blank line, the body, and the divider has
\* one length in both variants (one of the two lengths the code writes).
C9_OneDividerLength ==
  \E d \in {DividerLenJs, DividerLenMts} : \A v \in Variants : C9_Layout(v, d)

\* C9 as amended: the same lines in the same order, with a divider of 50
\* glyphs in convert.js and of 60 glyphs in convert.mts.
C9_CanonicalLayout ==
  /\ C9_Layout("js", DividerLenJs)
  /\ C9_Layout("mts", DividerLenMts)

\* C9 witness: both variants have built the text of an e-mail with a cc, a
\* date, two attachments and a body of two lines.
C9_Witness ==
  /\ mtext # Idle /\ mtext["js"].built /\ mtext["mts"].built
  /\ mail.cc # <<>> /\ mail.date # <<>> /\ Len(mail.attachments) = 2
  /\ mail.body = <<65, 10, 65>>

\* C10: the PDF and the DOCX renderer draw as body what follows the first
\* line that starts with the divider glyph, trimmed (the whole text when
\* there is no such line); after a divider with nothing behind it the body
\* is empty; and the two renderers draw the same body.
C10_SameBodyAfterDivider ==
  bodies # Idle =>
    \A v \in Variants :
      bodies[v].rendered =>
        LET text == mtext[v].text
            lines == Split(text, 10)
            idx == FindIndexStartsWith(lines, DividerGlyph)
            expected == IF idx = 0 THEN text
                        ELSE Trim(Join(SubSeq(lines, idx + 1, Len(lines)), <<10>>))
        IN  /\ bodies[v].pdf = expected
            /\ bodies[v].docx = expected

\* The lines of the e-mail's body, and whether one of them starts with the
\* divider glyph.
BodyLines == Split(mail.body, 10)

BodyHasDividerLine == \E i \in 1..Len(BodyLines) : StartsWith(BodyLines[i], DividerGlyph)

\* What follows the first line of the body that starts with the glyph.
AfterBodyDivider ==
  LET k == CHOOSE i \in 1..Len(BodyLines) :
             /\ StartsWith(BodyLines[i], DividerGlyph)
             /\ \A j \in 1..(i - 1) : ~StartsWith(BodyLines[j], DividerGlyph)
  IN  Trim(Join(SubSeq(BodyLines, k + 1, Len(BodyLines)), <<10>>))

\* C11 as claimed: when the body has a line that starts with the divider
\* glyph, the PDF and the DOCX renderer take that line for the boundary and
\* draw what follows it, not the whole body.
C11_BodyDividerTakenForBoundary ==
  bodies # Idle =>
    \A v \in Variants :
      (bodies[v].rendered /\ BodyHasDividerLine) =>
        /\ bodies[v].pdf = AfterBodyDivider
        /\ bodies[v].docx = AfterBodyDivider

\* C11 as amended: the boundary is the first line of the text that starts
\* with the glyph, which is the synthesized divider, so a body with such a
\* line of its own is drawn whole (trimmed) by both renderers.
C11_SynthesizedDividerIsBoundary ==
  bodies # Idle =>
    \A v \in Variants :
      (bodies[v].rendered /\ BodyHasDividerLine) =>
        /\ bodies[v].pdf = Trim(mail.body)
        /\ bodies[v].docx = Trim(mail.body)

\* C11 witness: both renderers of convert.js have drawn the body "A", LF,
\* glyph whole.
C11_Witness ==
  /\ bodies # Idle /\ bodies["js"].rendered
  /\ mail.body = <<65, 10, DividerGlyph>>
  /\ bodies["js"].pdf = mail.body /\ bodies["js"].docx = mail.body

\* ---- text to text

\* Well-formed UTF-8 of sequences of one to three bytes.
RECURSIVE ValidUtf8(_)
ValidUtf8(b) ==
  \/ Len(b) = 0
  \/ b[1] < 128 /\ ValidUtf8(Tail(b))
  \/ /\ Len(b) >= 2
     /\ b[1] \in 194..223 /\ b[2] \in 128..191
     /\ ValidUtf8(SubSeq(b, 3, Len(b)))
  \/ /\ Len(b) >= 3
     /\ \/ b[1] = 224 /\ b[2] \in 160..191
        \/ b[1] \in (225..236) \cup (238..239) /\ b[2] \in 128..191
        \/ b[1] = 237 /\ b[2] \in 128..159
     /\ b[3] \in 128..191
     /\ ValidUtf8(SubSeq(b, 4, Len(b)))

TxtRendered == xout # Idle /\ result # NoResult /\ result.ok

\* C12: the txt renderer's bytes are the UTF-8 encoding of the document's
\* text, nothing more and nothing less (they decode to the text again); and
\* for a file of the default arm whose bytes are well-formed UTF-8 they are
\* the bytes of the file.
C12_TextRoundTrip ==
  TxtRendered =>
    /\ result.bytes = Utf8Encode(TheDoc.doc.text)
    /\ Utf8Decode(result.bytes) = TheDoc.doc.text
    /\ result.mime = "text/plain; charset=utf-8"
    /\ (xin.ext \in {ExtTxt, <<>>} /\ ValidUtf8(xin.buf)) => result.bytes = xin.buf

\* C12 witness: a .txt file holding U+2500 and 'A' has come back byte for
\* byte.
C12_Witness ==
  /\ TxtRendered
  /\ xin.ext = ExtTxt /\ xin.buf = <<226, 148, 128, 65>>
  /\ TheDoc.doc.text = <<DividerGlyph, 65>>
  /\ result.bytes = xin.buf

\* ---- output names

\* The extension of a file name is its last dot with the characters after
\* it, when there are any; a name without a dot, or ending in its last dot,
\* has none.  Stem is the name without its extension.
ExtStart(name) ==
  IF \E i \in 1..(Len(name) - 1) : name[i] = 46 /\ \A j \in (i + 1)..Len(name) : name[j] # 46
  THEN CHOOSE i \in 1..(Len(name) - 1) :
         name[i] = 46 /\ \A j \in (i + 1)..Len(name) : name[j] # 46
  ELSE Len(name) + 1

Stem(name) == SubSeq(name, 1, ExtStart(name) - 1)

CanonicalExt(f) ==
  CASE f = "pdf" -> <<46, 112, 100, 102>>
    [] f = "docx" -> <<46, 100, 111, 99, 120>>
    [] f = "txt" -> <<46, 116, 120, 116>>
    [] f = "html" -> <<46, 104, 116, 109, 108>>

CanonicalMime(f) ==
  CASE f = "pdf" -> "application/pdf"
    [] f = "docx" -> "application/vnd.openxmlformats-officedocument.wordprocessingml.document"
    [] f = "txt" -> "text/plain; charset=utf-8"
    [] f = "html" -> "text/html; charset=utf-8"

\* The name of the uploaded file ("file" when the part has none).
SourceName == IF req.form.name # <<>> THEN req.form.name ELSE FileWord

\* C13: every converted file is named after the source file, with the
\* source's extension replaced by the extension of the target format
\* (appended when the source has none), and has the MIME type of the target
\* format, whatever the source extension and the content.
C13_OutputNameAndMime ==
  (Answered /\ req.method = "POST" /\ TheResp.status = 200) =>
    /\ req.form.targetFormat \in Supported
    /\ TheResp.name = Stem(SourceName) \o CanonicalExt(req.form.targetFormat)
    /\ TheResp.mime = CanonicalMime(req.form.targetFormat)

\* C13 witness: a.b.txt has been converted to a.b.docx.
C13_Witness ==
  /\ Answered /\ req.method = "POST" /\ TheResp.status = 200
  /\ req.form.name = <<97, 46, 98, 46, 116, 120, 116>>
  /\ req.form.targetFormat = "docx"
  /\ TheResp.name = <<97, 46, 98, 46, 100, 111, 99, 120>>

\* ---- choice of the extractor

\* The extension a file name declares, lower-cased: the characters after its
\* last dot; none for a name without a dot.
DeclaredExt(name) ==
  IF \E i \in 1..Len(name) : name[i] = 46
  THEN LowerCase(SubSeq(name, LastDot(name) + 1, Len(name)))
  ELSE <<>>

KnownExts == {ExtMsg, ExtEml, ExtDocx, ExtHtml, ExtHtm, ExtCsv, ExtJson}

ExtractionDone == pc \in {"convert", "done"} /\ "extract" \in trace

\* C14: the extractor is chosen by the lower-cased extension of the file
\* name alone, and a file whose name has none of the known extensions, or no
\* extension at all, is read as UTF-8 plain text.
C14_DispatchOnLowerCasedExtension ==
  ExtractionDone =>
    /\ (env.ext \in KnownExts \/ DeclaredExt(SourceName) \in KnownExts)
         => env.ext = DeclaredExt(SourceName)
    /\ (DeclaredExt(SourceName) \notin KnownExts) =>
         /\ content.ok
         /\ content.path = "direct"
         /\ content.doc.kind = "none"
         /\ content.doc.text = Utf8Decode(req.form.buf)

\* ---- CSV

\* How many times c occurs in s.
Count(s, c) == Cardinality({i \in 1..Len(s) : s[i] = c})

\* The rows are the given lines, in order: <th> cells in the first row,
\* <td> cells in the others, and one cell more than the line has commas.
RowsAre(table, lines) ==
  /\ Len(table) = Len(lines)
  /\ \A i \in 1..Len(table) :
       /\ Len(table[i]) = Count(lines[i], 44) + 1
       /\ \A j \in 1..Len(table[i]) :
            /\ table[i][j].tag = (IF i = 1 THEN "th" ELSE "td")
            /\ table[i][j].text = esc(Trim(Split(lines[i], 44)[j]))

CsvInput == Utf8Decode(xin.buf)

\* C15 as claimed: for an input with at least one non-empty line, the table
\* has one row for each non-empty line of the input, in the order of the input, the first of <th> cells, the others of
\* <td> cells, each with one cell more than its line has commas.
C15_RowPerNonEmptyLine ==
  (/\ xout # Idle /\ xin.ext = ExtCsv
   /\ \E i \in 1..Len(Split(CsvInput, 10)) : Len(Split(CsvInput, 10)[i]) > 0)
  => RowsAre(xout[1].table, SelectSeq(Split(CsvInput, 10), LAMBDA l : Len(l) > 0))

\* C15 as amended: the rows are the lines of the input once white space is
\* trimmed off both its ends, blank lines inside included; so there is one
\* row more than the trimmed input has line feeds, and one cell more in all
\* than it has line feeds and commas.
C15_RowPerLineOfTrimmedInput ==
  (xout # Idle /\ xin.ext = ExtCsv) =>
    /\ RowsAre(xout[1].table, Split(Trim(CsvInput), 10))
    /\ Len(xout[1].table) = Count(Trim(CsvInput), 10) + 1
    /\ Len(Flatten(xout[1].table)) = Count(Trim(CsvInput), 10) + Count(Trim(CsvInput), 44) + 1
    /\ TheDoc.ok /\ TheDoc.doc.text = CsvInput

\* C15 witness: "A,A", LF, "A" has given a header row of two cells and a
\* data row of one.
C15_Witness ==
  /\ xout # Idle
  /\ xin.buf = <<65, 44, 65, 10, 65>>
  /\ xout[1].table = <<<<Cell("th", <<65>>), Cell("th", <<65>>)>>, <<Cell("td", <<65>>)>>>>

\* ---- the e-mail page of the PDF

\* The operation at position i draws the string s.
Draws(ops, i, s) == ops[i].op \in {"subject", "field"} /\ ops[i].s = s

\* C16: for a document of type "email" the PDF renderer draws a panel, in
\* it the subject, the from and to values, the cc and the date when there
\* are any, and the attachment names when there are any, then a horizontal
\* rule, then the body text and nothing after it.
C16_EmailPdfHeaderPanel ==
  (/\ Answered /\ content.ok /\ result.ok
   /\ env.fmt = "pdf" /\ content.doc.kind = "email")
  => LET ops == result.ops
         m == content.doc.m
         n == Len(ops)
         Drawn(s) == \E i \in 1..(n - 2) : Draws(ops, i, s)
     IN  /\ n >= 3
         /\ ops[n].op = "body"
         /\ ops[n - 1].op = "rule"
         /\ \E i \in 1..(n - 2) : ops[i].op = "box"
         /\ \A i \in 1..(n - 1) : ops[i].op # "body"
         /\ Drawn(m.subject)
         /\ Drawn(m.from)
         /\ Drawn(m.to)
         /\ (m.cc # <<>>) => Drawn(m.cc)
         /\ (m.date # <<>>) => Drawn(m.date)
         /\ (Len(m.attachments) > 0) => Drawn(Join(m.attachments, CommaSpace))

\* ---- invocations in flight together

\* The response a request gets when it is the only one, with library
\* outcomes o and ro.
AloneResp(v, r, o, ro) ==
  IF r.method = "OPTIONS" THEN EmptyResp(v, 200)
  ELSE IF r.method # "POST" THEN ErrorResp(v, 405, "Method not allowed")
  ELSE IF ~r.form.decodes THEN CaughtResp(v, r.form.err)
  ELSE IF ~r.form.hasFile \/ r.form.targetFormat = "" THEN MissingResp(v, r.form)
  ELSE LET filename == Or(r.form.name, FileWord)
           c == extract(v, r.form.buf, ExtOf(filename), o)
           res == convert(v, c.doc, r.form.targetFormat, BaseNameOf(filename), ro)
       IN  IF ~c.ok THEN CaughtResp(v, c.err)
           ELSE IF res.ok THEN FileResp(v, res)
           ELSE CaughtResp(v, res.err)

\* C17: however the invocations interleave, each answers once, with the
\* response its request gets alone, and what it extracted and named comes
\* from its own request.
C17_CallsAreIndependent ==
  calls # Idle =>
    \A i \in CallIds :
      /\ (calls[i].pc # "done") => calls[i].resp = <<>>
      /\ (calls[i].pc = "done") =>
           calls[i].resp = <<AloneResp(variant, calls[i].req, calls[i].reads, calls[i].ro)>>
      /\ (calls[i].pc \in {"extract", "convert"}) =>
           /\ calls[i].env.buf = calls[i].req.form.buf
           /\ calls[i].env.fmt = calls[i].req.form.targetFormat
           /\ calls[i].env.baseName = BaseNameOf(Or(calls[i].req.form.name, FileWord))

\* C17 witness: a.msg to PDF and a.b.txt to text, in flight together, have
\* both been answered 200, each with its own file, the second before the
\* first.
C17_Witness ==
  /\ calls # Idle
  /\ calls[1].req.form.name = NameAMsg /\ calls[2].req.form.name = NameABTxt
  /\ calls[1].pc = "convert" /\ calls[2].pc = "done"
  /\ calls[2].resp[1].status = 200
  /\ calls[2].resp[1].bytes = <<65>>

\* ---- the two .msg readers merged

\* The streams of the storage index that the scan reads, in index order,
\* and the string each decodes to.
Streams == SelectSeq(xin.c.entries, LAMBDA e : e.type = 2 /\ Len(e.content) > 0)

Decoded(e) == msgStr(e.content, e.unicode)

\* The streams of a tag of T that decode to a non-empty string.
Hits(T) == {k \in 1..Len(Streams) : Streams[k].tag \in T /\ Decoded(Streams[k]) # <<>>}

\* First non-empty wins: the structured reader's value cur when it has one,
\* else the first hit of the scan, else nothing.
FirstWins(cur, T) ==
  IF cur # <<>> THEN cur
  ELSE IF Hits(T) = {} THEN <<>>
  ELSE Decoded(Streams[CHOOSE k \in Hits(T) : \A j \in Hits(T) : k <= j])

\* C18: every field of the merge is the structured reader's value when that
\* is not empty, and otherwise the decoded value of the first stream, in
\* index order, of the field's tag that decodes to a non-empty string; the
\* attachment names are those of the structured reader followed by names of
\* the scan, each appended once and only when not yet in the list.
C18_FirstNonEmptyWins ==
  xout # Idle =>
    LET m1 == xout[1].m1
        f == xout[1].f
        a1 == m1.attachmentNames
        a == f.attachmentNames
    IN  /\ f.subject = FirstWins(m1.subject, {"0037"})
        /\ f.from = FirstWins(m1.from, {"0C1A"})
        /\ f.senderEmail = FirstWins(m1.senderEmail, {"0C1F", "0065"})
        /\ f.to = FirstWins(m1.to, {"0E04"})
        /\ f.cc = FirstWins(m1.cc, {"0E03"})
        /\ f.body = FirstWins(m1.body, {"1000"})
        /\ f.bodyHtml = FirstWins(m1.bodyHtml, {"1013"})
        /\ f.date = m1.date
        /\ Len(a) >= Len(a1) /\ SubSeq(a, 1, Len(a1)) = a1
        /\ \A i \in (Len(a1) + 1)..Len(a) :
             /\ \E k \in Hits({"3707"}) : Decoded(Streams[k]) = a[i]
             /\ \A j \in 1..Len(a) : j # i => a[j] # a[i]
        /\ \A k \in Hits({"3707"}) : \E i \in 1..Len(a) : a[i] = Decoded(Streams[k])

\* C18 witness: msgreader has failed and the index holds three subject
\* streams, " ", "A" and "f.bin": the subject is "A".
C18_Witness ==
  /\ xout # Idle
  /\ xin.r.threw /\ ~xin.c.threw
  /\ xin.c.entries = <<StorageEntry("0037", FALSE, <<32>>), StorageEntry("0037", FALSE, <<65>>),
                       StorageEntry("0037", FALSE, FBin)>>
  /\ xout[1].f.subject = <<65>>

\* ---- the .msg fallback

Printable(b) == b >= 32 /\ b <= 126

\* The maximal runs of printable bytes of the buffer, as <<first, last>>.
PrintableRuns ==
  {p \in (1..Len(xin.buf)) \X (1..Len(xin.buf)) :
     /\ p[1] <= p[2]
     /\ \A k \in p[1]..p[2] : Printable(xin.buf[k])
     /\ (p[1] = 1 \/ ~Printable(xin.buf[p[1] - 1]))
     /\ (p[2] = Len(xin.buf) \/ ~Printable(xin.buf[p[2] + 1]))}

RunLen(p) == p[2] - p[1] + 1

\* C19: when msgreader fails in convert.js, the text is a maximal run of
\* printable ASCII bytes of the buffer that no run exceeds in length (runs
\* that reach the last byte included) and that no run of the same length
\* precedes; it is the placeholder exactly when the buffer has no printable
\* byte.
C19_LongestPrintableRun ==
  (xout # Idle /\ xin.v = "js" /\ xin.ext = ExtMsg /\ xout[1].reads.msgreader.threw) =>
    /\ TheDoc.ok /\ TheDoc.doc.kind = "none"
    /\ IF \A k \in 1..Len(xin.buf) : ~Printable(xin.buf[k])
       THEN TheDoc.doc.text = CannotReadMsg
       ELSE \E p \in PrintableRuns :
              /\ TheDoc.doc.text = SubSeq(xin.buf, p[1], p[2])
              /\ \A q \in PrintableRuns :
                   /\ RunLen(q) <= RunLen(p)
                   /\ (RunLen(q) = RunLen(p)) => p[1] <= q[1]

\* C19 witness: of the runs "~~" and "  " the text is "~~", the earlier of
\* the two, the other of which ends the buffer.
C19_Witness ==
  /\ xout # Idle
  /\ xin.buf = <<126, 126, 31, 32, 32>>
  /\ TheDoc.doc.text = <<126, 126>>

====
